---- MODULE Spec2Model ----
(***************************************************************************)
(* Model of common/uq_keras_utils.py: the adaptive callbacks               *)
(* (AbstentionAdapt_Callback, Contamination_Callback), the loss closures   *)
(* that read their state, and add_model_output.                            *)
(*                                                                         *)
(* Floating point values are modelled as exact extended rationals <<n, d>> *)
(* with d >= 0: d > 0 is the finite value n/d in lowest terms, <<1, 0>>    *)
(* and <<-1, 0>> are +inf and -inf, <<0, 0>> is NaN (numpy arithmetic      *)
(* yields inf and nan instead of raising).  Rounding is not modelled.      *)
(***************************************************************************)
EXTENDS Integers, Sequences, FiniteSets, TLC

VARIABLES
    \* AbstentionAdapt_Callback
    mu,             \* K.variable self.mu
    muvalues,       \* self.muvalues
    py3,            \* the interpreter orders None against a float (Python 2) or raises (Python 3)
    calls,          \* number of on_epoch_end calls made so far
    mu_trace,       \* history variable: mu right after each call
    last,           \* history variable: arguments, outcome and mu before the last call
    \* Contamination_Callback
    T,              \* self.T, one row <<P(normal), P(outlier)>> per training sample
    T_k,            \* K.variable self.T_k
    a,              \* K.variable self.a
    sigmaSQ,        \* K.variable self.sigmaSQ
    gammaSQ,        \* K.variable self.gammaSQ
    avalues,        \* self.avalues
    sigmaSQvalues,  \* self.sigmaSQvalues
    gammaSQvalues,  \* self.gammaSQvalues
    epochs,         \* number of Contamination_Callback.on_epoch_end calls made so far
    em,             \* history variable: inputs and intermediate values of the last call
    \* a training run: batches of an epoch, then the epoch-end hook
    train,
    \* a call of add_model_output: its arguments, then its result
    amo,
    \* a call of a heteroscedastic or quantile loss or metric on one prediction row
    decode,
    \* a call of a per-class accuracy metric on one batch
    cls,
    \* a call of modify_labels
    lab,
    \* the step-halving loop of one Contamination_Callback.on_epoch_end call
    bk

abstentionVars == <<mu, muvalues, py3, calls, mu_trace, last>>

contaminationVars ==
    <<T, T_k, a, sigmaSQ, gammaSQ, avalues, sigmaSQvalues, gammaSQvalues, epochs, em>>

\* the calls of the functions that keep no state between calls, and the
\* step-halving loop taken on its own
pureVars == <<decode, cls, lab, bk>>

vars == <<abstentionVars, contaminationVars, train, amo, pureVars>>

----------------------------------------------------------------------------
(* Extended rational arithmetic *)

AbsInt(n) == IF n < 0 THEN -n ELSE n

SignInt(n) == IF n < 0 THEN -1 ELSE IF n > 0 THEN 1 ELSE 0

RECURSIVE GCD(_, _)
GCD(x, y) == IF y = 0 THEN x ELSE GCD(y, x % y)

\* lowest terms, positive denominator; d = 0 keeps only the sign (inf, -inf, nan)
Norm(n, d) ==
    IF d = 0 THEN <<SignInt(n), 0>>
    ELSE LET s == IF d < 0 THEN -1 ELSE 1
             g == GCD(AbsInt(n), AbsInt(d))
         IN  <<(s * n) \div g, (s * d) \div g>>

Rat(n, d) == Norm(n, d)

NaN == <<0, 0>>

IsNaN(x) == x = NaN

IsFinite(x) == x[2] > 0

\* factors common to a numerator and the other denominator are cancelled
\* before multiplying, to keep the intermediate integers small
Mul(x, y) ==
    IF x[2] = 0 \/ y[2] = 0 THEN Norm(x[1] * y[1], 0)
    ELSE LET g1 == GCD(AbsInt(x[1]), y[2])
             g2 == GCD(AbsInt(y[1]), x[2])
         IN  <<(x[1] \div g1) * (y[1] \div g2), (x[2] \div g2) * (y[2] \div g1)>>

Recip(x) == Norm(x[2], x[1])

Div(x, y) == Mul(x, Recip(y))

Add(x, y) ==
    IF x[2] = 0 /\ y[2] = 0 THEN (IF x = y THEN x ELSE NaN)
    ELSE IF x[2] = 0 THEN x
    ELSE IF y[2] = 0 THEN y
    ELSE LET g == GCD(x[2], y[2])
         IN  Norm(x[1] * (y[2] \div g) + y[1] * (x[2] \div g), (x[2] \div g) * y[2])

Neg(x) == <<-x[1], x[2]>>

Sub(x, y) == Add(x, Neg(y))

\* x < y; every comparison with NaN is false
Less(x, y) ==
    /\ ~IsNaN(x)
    /\ ~IsNaN(y)
    /\ IF x[2] = 0 \/ y[2] = 0
       THEN x[1] * (IF x[2] = 0 THEN 1 ELSE 0) < y[1] * (IF y[2] = 0 THEN 1 ELSE 0)
       ELSE LET g == GCD(x[2], y[2])
            IN  x[1] * (y[2] \div g) < y[1] * (x[2] \div g)

Zero == <<0, 1>>

One == <<1, 1>>

----------------------------------------------------------------------------
(* AbstentionAdapt_Callback *)

\* bounds of the model: calls made, and the largest epoch number passed
MaxCalls == 4

MaxEpoch == 4

\* constructor arguments (lines 247-253); scale_factor, target_acc and
\* max_abs have their default values
init_abs_epoch == 2

scale_factor == Rat(19, 20)

target_acc == Rat(19, 20)

max_abs == Rat(1, 2)

monitor == "val_abstention_acc"

abs_monitor == "val_abstention"

Mu0Values == {One, Rat(1, 2)}

\* value of logs.get(key) for a key that is not in logs
None == <<>>

AccValues == {Rat(9, 10), Rat(19, 20)}

AbsValues == {Rat(1, 2), Rat(3, 5)}

\* metric logs: dicts that hold the loss and any subset of the monitored keys
LogsOver(D) ==
    { [k \in D \cup {"loss"} |->
          IF k = monitor THEN c ELSE IF k = abs_monitor THEN b ELSE One]
      : c \in AccValues, b \in AbsValues }

AllLogs == UNION { LogsOver(D) : D \in SUBSET {monitor, abs_monitor} }

LogsGet(logs, key) == IF key \in DOMAIN logs THEN logs[key] ELSE None

\* line 268
AdaptActive_ge(epoch) == epoch >= init_abs_epoch

AdaptActive(epoch) == epoch > init_abs_epoch

\* lines 279-280
AccuracyStep_twice(v, current) ==
    IF Less(current, target_acc) THEN Mul(Mul(v, scale_factor), scale_factor) ELSE v

AccuracyStep_div(v, current) ==
    IF Less(current, target_acc) THEN Div(v, scale_factor) ELSE v

AccuracyStep(v, current) ==
    IF Less(current, target_acc) THEN Mul(v, scale_factor) ELSE v

\* lines 282-283, abs is a number
AbstentionStep_mul(v, abs) ==
    IF Less(max_abs, abs) THEN Mul(v, scale_factor) ELSE v

AbstentionStep(v, abs) ==
    IF Less(max_abs, abs) THEN Div(v, scale_factor) ELSE v

\* The result of one call on the value held by self.mu: how the call ends,
\* the value self.mu holds afterwards and what is appended to self.muvalues.
\* The module never imports warnings, so line 274 raises NameError; on
\* Python 3 line 282 raises TypeError when abs is None.
AdaptResult(mu_val, epoch, logs, python3) ==
    LET new_mu_val == mu_val
        current == LogsGet(logs, monitor)
        abs     == LogsGet(logs, abs_monitor)
        raised(e) == [outcome |-> e, mu |-> mu_val, appended |-> <<>>]
        done(m, v) == [outcome |-> "returned", mu |-> m, appended |-> <<v>>]
    IN  IF ~AdaptActive(epoch) THEN done(mu_val, new_mu_val)
        ELSE IF current = None THEN raised("NameError")
        ELSE LET v1 == AccuracyStep(new_mu_val, current)
             IN  IF abs = None
                 THEN (IF python3 THEN raised("TypeError") ELSE done(v1, v1))
                 ELSE LET v2 == AbstentionStep(v1, abs) IN done(v2, v2)

AbstentionInit ==
    /\ mu \in Mu0Values
    /\ muvalues = <<>>
    /\ py3 \in BOOLEAN
    /\ calls = 0
    /\ mu_trace = <<>>
    /\ last = [epoch |-> -1, logs |-> [k \in {"loss"} |-> One],
               outcome |-> "none", mu_before |-> mu, len_before |-> 0]

AbstentionAdapt_on_epoch_end(epoch, logs) ==
    /\ calls < MaxCalls
    /\ \E r \in {AdaptResult(mu, epoch, logs, py3)} :
        /\ mu' = r.mu
        /\ muvalues' = muvalues \o r.appended
        /\ calls' = calls + 1
        /\ mu_trace' = Append(mu_trace, r.mu)
        /\ last' = [epoch |-> epoch, logs |-> logs,
                    outcome |-> r.outcome, mu_before |-> mu,
                    len_before |-> Len(muvalues)]
        /\ UNCHANGED py3

AbstentionCall ==
    /\ \E epoch \in 0..MaxEpoch, logs \in AllLogs : AbstentionAdapt_on_epoch_end(epoch, logs)
    /\ UNCHANGED <<contaminationVars, train, amo, pureVars>>

----------------------------------------------------------------------------
(* Contamination_Callback *)

\* bounds of the model
NSamples == 2

MaxContEpochs == 2

\* an epoch end is explored only from states whose values have numerators and
\* denominators up to this limit, which keeps the exact arithmetic of the
\* next epoch within the integers of the model checker
IntLimit == 40

Samples == 1..NSamples

\* np.random.uniform draws from [0, 1)
TInitValues == {Rat(1, 4), Rat(1, 2)}

\* residuals self.y - y_pred of the model in training
ErrValues == {Zero, One}

\* learning rates of the optimizer
EtaValues == {Rat(1, 100), Rat(11, 50)}

\* values of a probability density
DensityValues == {Zero, Rat(1, 2), One}

\* the density at the mode, x = 0; the other values are relative to it
ModeDensity == One

RECURSIVE SumTo(_, _)
SumTo(f, n) == IF n = 0 THEN Zero ELSE Add(SumTo(f, n - 1), f[n])

\* np.sum over the samples
Sum(f) == SumTo(f, NSamples)

\* np.mean over the samples
Mean(f) == Div(Sum(f), Rat(NSamples, 1))

Col(M, c) == [i \in Samples |-> M[i][c]]

\* lines 737-744
InitialT(t0) == [i \in Samples |-> <<t0[i], Sub(One, t0[i])>>]

\* lines 776-779: the step is halved while the new value is negative
RECURSIVE Backoff(_, _, _, _)
Backoff(gmSQ_eval, eta, grad_gmSQ, n) ==
    LET new_gmSQ == Sub(gmSQ_eval, Mul(eta, grad_gmSQ))
    IN  IF Less(new_gmSQ, Zero)
        THEN Backoff(gmSQ_eval, Div(eta, Rat(2, 1)), grad_gmSQ, n + 1)
        ELSE [new_gmSQ |-> new_gmSQ, eta |-> eta, halvings |-> n, grad |-> grad_gmSQ]

\* line 773
Gradient(Tm, errorSQ, gmSQ_eval) ==
    Div(Sub(Mul(Rat(1, 2), Sum(Col(Tm, 2))),
            Sum([i \in Samples |->
                   Div(Mul(Tm[i][2], errorSQ[i]), Add(gmSQ_eval, errorSQ[i]))])),
        gmSQ_eval)

\* lines 765-780: the M-step, from the latent variables of the previous E-step
MStep(Tm, gmSQ_eval, error, eta) ==
    LET errorSQ == [i \in Samples |-> Mul(error[i], error[i])]
    IN  CHOOSE m \in
          { [a |-> Mean(Col(Tm, 1)),
             sigmaSQ |-> Div(Sum([i \in Samples |-> Mul(Tm[i][1], errorSQ[i])]),
                             Sum(Col(Tm, 1))),
             gammaSQ |-> b.new_gmSQ,
             grad |-> b.grad,
             halvings |-> b.halvings]
            : b \in { [Backoff(gmSQ_eval, eta, grad_gmSQ, 0) EXCEPT !.grad = grad_gmSQ]
                      : grad_gmSQ \in {Gradient(Tm, errorSQ, gmSQ_eval)} } } : TRUE

\* scipy.stats pdf(x, loc=0, scale=sqrt(scaleSQ)): nan unless the scale is a
\* positive number, otherwise a density value, which pdf gives for each residual
Density(x, scaleSQ, pdf) ==
    IF IsNaN(x) \/ ~Less(Zero, scaleSQ) THEN NaN
    ELSE IF ~IsFinite(scaleSQ) THEN Zero
    ELSE pdf[x]

\* a normal density is positive at its mode and does not grow with |x|; it
\* underflows to 0 far from it
NormalPdfs ==
    { f \in [ErrValues -> DensityValues] :
        /\ f[Zero] = ModeDensity
        /\ \A x \in ErrValues : ~Less(f[Zero], f[x]) }

\* a Cauchy density is positive and does not grow with |x|
CauchyPdfs ==
    { f \in [ErrValues -> DensityValues \ {Zero}] :
        /\ f[Zero] = ModeDensity
        /\ \A x \in ErrValues : ~Less(f[Zero], f[x]) }

\* lines 790-792
Posterior(a_eval, norm_eval, cauchy_eval) ==
    [i \in Samples |->
        LET denominator == Add(Mul(a_eval, norm_eval[i]),
                               Mul(Sub(One, a_eval), cauchy_eval[i]))
        IN  <<Div(Mul(a_eval, norm_eval[i]), denominator),
              Div(Mul(Sub(One, a_eval), cauchy_eval[i]), denominator)>>]

\* lines 784-792: the E-step
EStep(a_eval, sigmaSQ_eval, gammaSQ_eval, error, npdf, cpdf) ==
    LET norm_eval == [i \in Samples |-> Density(error[i], sigmaSQ_eval, npdf)]
        cauchy_eval == [i \in Samples |-> Density(error[i], gammaSQ_eval, cpdf)]
    IN  [T |-> Posterior(a_eval, norm_eval, cauchy_eval),
         norm_eval |-> norm_eval,
         cauchy_eval |-> cauchy_eval,
         a_eval |-> a_eval,
         norm_scaleSQ |-> sigmaSQ_eval,
         cauchy_scaleSQ |-> gammaSQ_eval]

\* the E-step taken before the M-step
EpochEndResult_EStepFirst(Tm, gmSQ, a_old, sigmaSQ_old, error, eta, npdf, cpdf) ==
    CHOOSE r \in
      { [m |-> MStep(e.T, gmSQ, error, eta), e |-> e]
        : e \in {EStep(a_old, sigmaSQ_old, gmSQ, error, npdf, cpdf)} } : TRUE

\* lines 761-798: the values the call leaves, M-step then E-step
EpochEndResult(Tm, gmSQ, a_old, sigmaSQ_old, error, eta, npdf, cpdf) ==
    CHOOSE r \in
      { [m |-> m, e |-> EStep(m.a, m.sigmaSQ, m.gammaSQ, error, npdf, cpdf)]
        : m \in {MStep(Tm, gmSQ, error, eta)} } : TRUE

Small(x) == AbsInt(x[1]) <= IntLimit /\ x[2] <= IntLimit

Explorable ==
    /\ Small(gammaSQ)
    /\ \A i \in Samples : Small(T[i][1]) /\ Small(T[i][2])

NoCall ==
    [error |-> <<>>, eta |-> Zero, T_before |-> <<>>, gammaSQ_before |-> Zero,
     m |-> <<>>, e |-> <<>>]

ContaminationInit ==
    /\ \E t0 \in [Samples -> TInitValues] : T = InitialT(t0)
    /\ T_k = T
    /\ a = Mean(Col(T, 1))
    /\ sigmaSQ = Rat(1, 10)
    /\ gammaSQ = Rat(1, 10)
    /\ avalues = <<>>
    /\ sigmaSQvalues = <<>>
    /\ gammaSQvalues = <<>>
    /\ epochs = 0
    /\ em = NoCall

Contamination_on_epoch_end(error, eta, npdf, cpdf) ==
    /\ epochs < MaxContEpochs
    /\ Explorable
    /\ \E r \in {EpochEndResult(T, gammaSQ, a, sigmaSQ, error, eta, npdf, cpdf)} :
        /\ a' = r.m.a
        /\ sigmaSQ' = r.m.sigmaSQ
        /\ gammaSQ' = r.m.gammaSQ
        /\ T' = r.e.T
        /\ T_k' = r.e.T
        /\ avalues' = Append(avalues, r.m.a)
        /\ sigmaSQvalues' = Append(sigmaSQvalues, r.m.sigmaSQ)
        /\ gammaSQvalues' = Append(gammaSQvalues, r.m.gammaSQ)
        /\ epochs' = epochs + 1
        /\ em' = [error |-> error, eta |-> eta, T_before |-> T,
                  gammaSQ_before |-> gammaSQ, m |-> r.m, e |-> r.e]

ContaminationCall ==
    /\ \E error \in [Samples -> ErrValues], eta \in EtaValues,
          npdf \in NormalPdfs, cpdf \in CauchyPdfs :
            Contamination_on_epoch_end(error, eta, npdf, cpdf)
    /\ UNCHANGED <<abstentionVars, train, amo, pureVars>>

----------------------------------------------------------------------------
(* The loss closures inside a training run.  The trainer evaluates the loss  *)
(* once per batch and calls on_epoch_end once per epoch, after the epoch's   *)
(* batches and before the next epoch's.  A loss evaluation is modelled by    *)
(* the shared variables it reads and writes.                                 *)

\* bound of the model
BatchesPerEpoch == 2

\* lines 35-51: loss(y_true, y_pred) of abstention_loss reads mu
abstention_loss_reads == <<mu>>

\* lines 691-714: loss(y_true, y_pred) of contamination_loss reads
\* sigmaSQ, a, gammaSQ and T_k
contamination_loss_reads == <<a, sigmaSQ, gammaSQ, T_k>>

InBatches(kind) ==
    /\ train.kind = kind
    /\ train.phase = "batches"
    /\ train.batch < BatchesPerEpoch

AtEpochEnd(kind) ==
    /\ train.kind = kind
    /\ train.phase = "batches"
    /\ train.batch = BatchesPerEpoch

abstention_loss_batch_writes ==
    /\ InBatches("abstention")
    /\ train' = [train EXCEPT !.batch = @ + 1, !.reads = Append(@, abstention_loss_reads)]
    /\ mu' = Mul(mu, scale_factor)
    /\ UNCHANGED <<muvalues, py3, calls, mu_trace, last, contaminationVars, amo, pureVars>>

abstention_loss_batch ==
    /\ InBatches("abstention")
    /\ train' = [train EXCEPT !.batch = @ + 1, !.reads = Append(@, abstention_loss_reads)]
    /\ UNCHANGED <<abstentionVars, contaminationVars, amo, pureVars>>

contamination_loss_batch ==
    /\ InBatches("contamination")
    /\ train' = [train EXCEPT !.batch = @ + 1, !.reads = Append(@, contamination_loss_reads)]
    /\ UNCHANGED <<abstentionVars, contaminationVars, amo, pureVars>>

\* an exception raised by the hook ends the run
AfterHook(returned, state) ==
    IF returned
    THEN [train EXCEPT !.epoch = @ + 1, !.batch = 0, !.reads = <<>>, !.start = state]
    ELSE [train EXCEPT !.phase = "crashed"]

TrainEpochEndAbstention ==
    /\ AtEpochEnd("abstention")
    /\ \E logs \in AllLogs : AbstentionAdapt_on_epoch_end(train.epoch, logs)
    /\ train' = AfterHook(last'.outcome = "returned", <<mu'>>)
    /\ UNCHANGED <<contaminationVars, amo, pureVars>>

TrainEpochEndContamination ==
    /\ AtEpochEnd("contamination")
    /\ \E error \in [Samples -> ErrValues], eta \in EtaValues,
          npdf \in NormalPdfs, cpdf \in CauchyPdfs :
            Contamination_on_epoch_end(error, eta, npdf, cpdf)
    /\ train' = AfterHook(TRUE, <<a', sigmaSQ', gammaSQ', T_k'>>)
    /\ UNCHANGED <<abstentionVars, amo, pureVars>>

TrainIdle ==
    train = [kind |-> "none", phase |-> "idle", epoch |-> 0, batch |-> 0,
             reads |-> <<>>, start |-> <<>>]

TrainStart(kind, state) ==
    train = [kind |-> kind, phase |-> "batches", epoch |-> 0, batch |-> 0,
             reads |-> <<>>, start |-> state]

----------------------------------------------------------------------------
(* add_model_output *)

\* bound of the model: the number of layers of modelIn
MaxLayers == 3

\* None passed for a string argument
NoneStr == "<None>"

LayerNames == {"input_1", "dense_1", "dense_2", "dropout_1"}

\* 'dense' in name
IsDense(name) == name \in {"dense_1", "dense_2"}

Widths == {1, 5}

Layers == [name : LayerNames, units : Widths, activation : {"linear"}]

RECURSIVE SeqsUpTo(_, _)
SeqsUpTo(S, n) ==
    IF n = 0 THEN {<<>>}
    ELSE LET shorter == SeqsUpTo(S, n - 1)
         IN  shorter \cup { Append(q, x) : q \in shorter, x \in S }

Modes == {NoneStr, "abstain", "qtl", "het", "both"}

\* num_add: <<>> is None, <<n>> the number n
NumAdds == {<<>>, <<2>>}

Activations == {NoneStr, "softmax"}

\* layers[i] for a negative Python index i
At(layers, i) == layers[Len(layers) + i + 1]

InRange(layers, i) == -Len(layers) <= i /\ i <= -1

\* the scan that never looks at the first layer
RECURSIVE Scan_skipFirst(_, _)
Scan_skipFirst(layers, i) ==
    IF ~IsDense(At(layers, i).name) /\ (i + Len(layers)) > 1
    THEN Scan_skipFirst(layers, i - 1)
    ELSE i

\* lines 373-375
RECURSIVE Scan(_, _)
Scan(layers, i) ==
    IF ~IsDense(At(layers, i).name) /\ (i + Len(layers)) > 0
    THEN Scan(layers, i - 1)
    ELSE i

\* lines 381-391; 0 stands for the exception of line 389
new_output_size_qtl2(mode, units, num_add) ==
    IF mode = "abstain" THEN units + num_add[1]
    ELSE IF mode = "qtl" THEN 2 * units
    ELSE IF mode = "het" THEN 2 * units
    ELSE 0

new_output_size(mode, units, num_add) ==
    IF mode = "abstain" THEN units + num_add[1]
    ELSE IF mode = "qtl" THEN 3 * units
    ELSE IF mode = "het" THEN 2 * units
    ELSE 0

Failed(e, i, rebuilt) == [status |-> e, model |-> <<>>, i |-> i, rebuilt |-> rebuilt]

\* lines 393-415: the layers before the dense layer, the rebuilt dense layer,
\* and the layers after it rebuilt from their configurations
Rebuild(layers, i, units, activation) ==
    LET p == Len(layers) + i + 1
        reconstructed_layer ==
            [At(layers, i) EXCEPT
                !.units = units,
                !.activation = IF activation = NoneStr THEN @ ELSE activation]
    IN  IF ~InRange(layers, i - 1)
        THEN Failed("IndexError", i, <<reconstructed_layer>>)
        ELSE [status |-> "returned",
              model |-> SubSeq(layers, 1, p - 1) \o <<reconstructed_layer>>
                          \o SubSeq(layers, p + 1, Len(layers)),
              i |-> i,
              rebuilt |-> <<reconstructed_layer>>]

\* lines 373-375: the indices at which the scan reads modelIn.layers
RECURSIVE ScanReads(_, _)
ScanReads(layers, i) ==
    IF ~InRange(layers, i) THEN {i}
    ELSE IF ~IsDense(At(layers, i).name) /\ (i + Len(layers)) > 0
    THEN {i} \cup ScanReads(layers, i - 1)
    ELSE {i}

\* the mode tested before the layers are scanned
add_model_output_modeFirst(layers, mode, num_add, activation) ==
    IF mode = NoneStr THEN [status |-> "returned", model |-> layers, i |-> 0, rebuilt |-> <<>>]
    ELSE IF mode \notin {"abstain", "qtl", "het"} THEN Failed("Exception", 0, <<>>)
    ELSE IF Len(layers) = 0 THEN Failed("IndexError", -1, <<>>)
    ELSE LET i == Scan(layers, -1)
         IN  IF ~((i + Len(layers)) >= 0) \/ ~IsDense(At(layers, i).name)
             THEN Failed("AssertionError", i, <<>>)
             ELSE IF mode = "abstain" /\ num_add = <<>>
             THEN Failed("AssertionError", i, <<>>)
             ELSE Rebuild(layers, i,
                          new_output_size(mode, At(layers, i).units, num_add),
                          activation)

\* lines 368-415
add_model_output(layers, mode, num_add, activation) ==
    IF mode = NoneStr THEN [status |-> "returned", model |-> layers, i |-> 0, rebuilt |-> <<>>]
    ELSE IF Len(layers) = 0 THEN Failed("IndexError", -1, <<>>)
    ELSE LET i == Scan(layers, -1)
         IN  IF ~((i + Len(layers)) >= 0) \/ ~IsDense(At(layers, i).name)
             THEN Failed("AssertionError", i, <<>>)
             ELSE IF mode = "abstain" /\ num_add = <<>>
             THEN Failed("AssertionError", i, <<>>)
             ELSE IF mode \notin {"abstain", "qtl", "het"}
             THEN Failed("Exception", i, <<>>)
             ELSE Rebuild(layers, i,
                          new_output_size(mode, At(layers, i).units, num_add),
                          activation)

NoResult == [status |-> "none", model |-> <<>>, i |-> 0, rebuilt |-> <<>>]

AmoIdle ==
    amo = [pc |-> "idle", layers |-> <<>>, mode |-> NoneStr, num_add |-> <<>>,
           activation |-> NoneStr, result |-> NoResult]

AmoInit ==
    \E layers \in SeqsUpTo(Layers, MaxLayers), mode \in Modes,
       num_add \in NumAdds, activation \in Activations :
        amo = [pc |-> "call", layers |-> layers, mode |-> mode, num_add |-> num_add,
               activation |-> activation, result |-> NoResult]

AmoCall ==
    /\ amo.pc = "call"
    /\ amo' = [amo EXCEPT
                 !.pc = "done",
                 !.result = add_model_output(amo.layers, amo.mode, amo.num_add,
                                             amo.activation)]
    /\ UNCHANGED <<abstentionVars, contaminationVars, train, pureVars>>

----------------------------------------------------------------------------
(* The functions that keep no state between calls *)

NoCallYet == [pc |-> "idle"]

DecodeIdle == decode = NoCallYet

ClsIdle == cls = NoCallYet

LabIdle == lab = NoCallYet

BkIdle == bk = NoCallYet

PureIdle == DecodeIdle /\ ClsIdle /\ LabIdle /\ BkIdle

----------------------------------------------------------------------------
(* Heteroscedastic and quantile losses and metrics: how each one takes its   *)
(* components out of the flat prediction.  One row of y_pred is modelled,    *)
(* with y_true of shape (batch, nout); columns are numbered from 0 as in the *)
(* code.  The arithmetic on the decoded components is not modelled.          *)

\* bound of the model: the number of outputs without uq augmentation
MaxNout == 3

\* values of a prediction
PredValues == {0, 1}

\* y_pred rows of a model whose last layer was widened `per` times
PredRows(nout, per) == [1..(per * nout) -> PredValues]

\* the columns y_pred[:, start::step] selects out of `width` columns
StridedColumns(width, start, step) ==
    LET count == IF start >= width THEN 0 ELSE (width - start + step - 1) \div step
    IN  [k \in 1..count |-> start + (k - 1) * step]

\* y_pred[:, cols]
Take(y_pred, cols) == [k \in 1..Len(cols) |-> y_pred[cols[k] + 1]]

\* K.reshape(t, K.shape(y_true)) of a tensor with Len(cols) columns fails
\* unless it has the nout columns of y_true
ReshapeFails(cols, nout) == Len(cols) # nout

\* lines 430-433, 461-464, 490-493, 551-552, 555: y_out
het_y_out(nout, width) ==
    IF nout > 1 THEN StridedColumns(width, 0, nout) ELSE <<0>>

\* lines 519-522, 553, 556: log_sig2
het_log_sig2(nout, width) ==
    IF nout > 1 THEN StridedColumns(width, 1, nout) ELSE <<1>>

Decoded(status, names, cols, y_pred) ==
    [status |-> status,
     columns |-> [c \in names |-> cols[c]],
     values |-> [c \in names |-> Take(y_pred, cols[c])]]

\* a metric of the mean alone: y_out reshaped to the shape of y_true
MeanOnly(nout, y_pred) ==
    LET cols == [c \in {"mean"} |-> het_y_out(nout, Len(y_pred))]
    IN  Decoded(IF ReshapeFails(cols["mean"], nout) THEN "ReshapeError" ELSE "returned",
                {"mean"}, cols, y_pred)

\* lines 429-437
r2_heteroscedastic_metric(nout, y_pred) == MeanOnly(nout, y_pred)

\* lines 452-466
mae_heteroscedastic_metric(nout, y_pred) == MeanOnly(nout, y_pred)

\* lines 481-495
mse_heteroscedastic_metric(nout, y_pred) == MeanOnly(nout, y_pred)

\* lines 510-524: log_sig2 is not reshaped
meanS_heteroscedastic_metric(nout, y_pred) ==
    Decoded("returned", {"logvar"},
            [c \in {"logvar"} |-> het_log_sig2(nout, Len(y_pred))], y_pred)

\* lines 539-560
heteroscedastic_loss(nout, y_pred) ==
    LET cols == [c \in {"mean", "logvar"} |->
                   IF c = "mean" THEN het_y_out(nout, Len(y_pred))
                   ELSE het_log_sig2(nout, Len(y_pred))]
    IN  Decoded(IF \E c \in DOMAIN cols : ReshapeFails(cols[c], nout)
                THEN "ReshapeError" ELSE "returned",
                {"mean", "logvar"}, cols, y_pred)

\* lines 609-616, 646-649: the component at offset index
qtl_y_out(nout, width, index) ==
    IF nout > 1 THEN StridedColumns(width, index, nout) ELSE <<index>>

QtlNames == <<"median", "low", "high">>

\* lines 597-618
triple_quantile_loss(nout, y_pred) ==
    LET cols == [c \in {"median", "low", "high"} |->
                   qtl_y_out(nout, Len(y_pred),
                             CHOOSE k \in 0..2 : QtlNames[k + 1] = c)]
    IN  Decoded(IF \E c \in DOMAIN cols : ReshapeFails(cols[c], nout)
                THEN "ReshapeError" ELSE "returned",
                {"median", "low", "high"}, cols, y_pred)

\* lines 636-650
quantile_metric(nout, index, y_pred) ==
    LET name == QtlNames[index + 1]
        cols == [c \in {name} |-> qtl_y_out(nout, Len(y_pred), index)]
    IN  Decoded(IF ReshapeFails(cols[name], nout) THEN "ReshapeError" ELSE "returned",
                {name}, cols, y_pred)

HetConsumers ==
    {"r2_heteroscedastic", "mae_heteroscedastic", "mse_heteroscedastic",
     "meanS_heteroscedastic", "heteroscedastic_loss"}

QtlConsumers == {"triple_quantile_loss", "quantile_metric"}

DecodeInit ==
    \E nout \in 1..MaxNout :
        \/ \E f \in HetConsumers, y_pred \in PredRows(nout, 2) :
              decode = [pc |-> "call", consumer |-> f, nout |-> nout, index |-> 0,
                        y_pred |-> y_pred]
        \/ \E f \in QtlConsumers, y_pred \in PredRows(nout, 3),
              index \in 0..2 :
              /\ f = "triple_quantile_loss" => index = 0
              /\ decode = [pc |-> "call", consumer |-> f, nout |-> nout,
                           index |-> index, y_pred |-> y_pred]

DecodeResult(f, nout, index, y_pred) ==
    CASE f = "r2_heteroscedastic" -> r2_heteroscedastic_metric(nout, y_pred)
      [] f = "mae_heteroscedastic" -> mae_heteroscedastic_metric(nout, y_pred)
      [] f = "mse_heteroscedastic" -> mse_heteroscedastic_metric(nout, y_pred)
      [] f = "meanS_heteroscedastic" -> meanS_heteroscedastic_metric(nout, y_pred)
      [] f = "heteroscedastic_loss" -> heteroscedastic_loss(nout, y_pred)
      [] f = "triple_quantile_loss" -> triple_quantile_loss(nout, y_pred)
      [] f = "quantile_metric" -> quantile_metric(nout, index, y_pred)

DecodeCall ==
    /\ decode.pc = "call"
    /\ decode' = [pc |-> "done", consumer |-> decode.consumer, nout |-> decode.nout,
                  index |-> decode.index, y_pred |-> decode.y_pred,
                  result |-> DecodeResult(decode.consumer, decode.nout,
                                          decode.index, decode.y_pred)]
    /\ UNCHANGED <<abstentionVars, contaminationVars, train, amo, cls, lab, bk>>

----------------------------------------------------------------------------
(* Per-class accuracy metrics.  A batch is a sequence of samples, each with  *)
(* a row of y_true and a row of y_pred of nb_classes + 1 columns, the last   *)
(* one the abstention class.  Classes and columns are numbered from 0.  `/`  *)
(* on the int64 counts is the true division of Python 3.                     *)

\* bound of the model: the number of samples of a batch
MaxBatch == 2

\* the index of the abstention class
nb_classes == 2

ScoreValues == {0, 1}

OneHot(c, width) == [k \in 1..width |-> IF k = c + 1 THEN 1 ELSE 0]

\* rows of y_true: a class, or the abstention class
TrueRows == { OneHot(c, nb_classes + 1) : c \in 0..nb_classes }

PredictionRows == [1..(nb_classes + 1) -> ScoreValues]

BatchSamples == [y_true : TrueRows, y_pred : PredictionRows]

\* K.argmax(row, axis=-1): the first column that holds the largest value
ArgMax(row) ==
    (CHOOSE k \in 1..Len(row) :
        /\ \A j \in 1..Len(row) : row[j] <= row[k]
        /\ \A j \in 1..(k - 1) : row[j] < row[k]) - 1

\* row[:-1]
AllButLast(row) == SubSeq(row, 1, Len(row) - 1)

RECURSIVE KSum(_)
\* K.sum of a vector of integers
KSum(v) == IF Len(v) = 0 THEN 0 ELSE v[1] + KSum(Tail(v))

\* K.cast(condition, 'int64')
Cast(b) == IF b THEN 1 ELSE 0

\* the accuracy returned without the test of total_true_i
Guarded_acc(total_true_i, acc) == acc

\* lines 158-160 and 209-211
Guarded(total_true_i, acc) == IF total_true_i > 0 THEN acc ELSE Zero

\* lines 136-160
acc_class_i_metric(class_i, batch) ==
    LET ytrueint == [k \in 1..Len(batch) |-> Cast(ArgMax(batch[k].y_true) = class_i)]
        total_true_i == KSum(ytrueint)
        ypredint == [k \in 1..Len(batch) |->
                        Cast(ArgMax(AllButLast(batch[k].y_pred)) = class_i)]
        true_i_pred == KSum([k \in 1..Len(batch) |-> ytrueint[k] * ypredint[k]])
        acc == Div(Rat(true_i_pred, 1), Rat(total_true_i, 1))
    IN  Guarded(total_true_i, acc)

\* lines 187-211
abstention_acc_class_i_metric(class_i, batch) ==
    LET ytrueint == [k \in 1..Len(batch) |-> Cast(ArgMax(batch[k].y_true) = class_i)]
        mask_pred == [k \in 1..Len(batch) |-> Cast(ArgMax(batch[k].y_pred) # nb_classes)]
        total_true_i == KSum([k \in 1..Len(batch) |-> ytrueint[k] * mask_pred[k]])
        true_i_pred ==
            KSum([k \in 1..Len(batch) |->
                    mask_pred[k] * ytrueint[k]
                      * Cast(ArgMax(batch[k].y_true) = ArgMax(batch[k].y_pred))])
        acc == Div(Rat(true_i_pred, 1), Rat(total_true_i, 1))
    IN  Guarded(total_true_i, acc)

ClassMetrics == {"acc_class_i", "abstention_acc_class_i"}

ClsInit ==
    \E f \in ClassMetrics, class_i \in 0..(nb_classes - 1),
       batch \in SeqsUpTo(BatchSamples, MaxBatch) :
        cls = [pc |-> "call", metric |-> f, class_i |-> class_i, batch |-> batch]

ClsCall ==
    /\ cls.pc = "call"
    /\ cls' = [pc |-> "done", metric |-> cls.metric, class_i |-> cls.class_i,
               batch |-> cls.batch,
               result |-> IF cls.metric = "acc_class_i"
                          THEN acc_class_i_metric(cls.class_i, cls.batch)
                          ELSE abstention_acc_class_i_metric(cls.class_i, cls.batch)]
    /\ UNCHANGED <<abstentionVars, contaminationVars, train, amo, decode, lab, bk>>

----------------------------------------------------------------------------
(* modify_labels.  A split is a non-empty sequence of class labels; ytrain   *)
(* has shape (n,) or (n, 1) (ndim 1 or 2).  yval = <<>> is None.             *)

\* bound of the model: the number of labels of a split
MaxSplit == 2

LabelValues == 0..2

Splits == SeqsUpTo(LabelValues, MaxSplit) \ {<<>>}

NumClassesOut == 1..5

RECURSIVE NpMax(_)
\* np.max of a non-empty array
NpMax(y) ==
    IF Len(y) = 1 THEN y[1]
    ELSE LET m == NpMax(Tail(y)) IN IF y[1] > m THEN y[1] ELSE m

\* np_utils.to_categorical(y, num_classes) for labels in 0..num_classes-1
to_categorical(y, num_classes) == [k \in 1..Len(y) |-> OneHot(y[k], num_classes)]

\* lines 323-336: sanity_check is one row of labels_train times the mask, a
\* vector; the loop runs ytrain.shape[1] times when ytrain.ndim > 1 and
\* reads sanity_check[i,j], which a vector does not have.  The row drawn at
\* line 325 does not change the outcome.
SanityCheckRaises(ndim) ==
    LET ll == IF ndim > 1 THEN 1 ELSE 0
    IN  ll > 0

NoLabels == [status |-> "none", labels_train |-> <<>>, labels_test |-> <<>>,
             labels_val |-> <<>>]

\* lines 307-341
modify_labels(numclasses_out, ytrain, ndim, ytest, yval) ==
    LET classestrain == NpMax(ytrain) + 1
        classestest == NpMax(ytest) + 1
    IN  IF classestrain # classestest
        THEN [NoLabels EXCEPT !.status = "AssertionError"]
        ELSE IF yval # <<>> /\ NpMax(yval) + 1 # classestest
        THEN [NoLabels EXCEPT !.status = "AssertionError"]
        ELSE IF classestrain + 1 # numclasses_out
        THEN [NoLabels EXCEPT !.status = "AssertionError"]
        ELSE IF SanityCheckRaises(ndim)
        THEN [NoLabels EXCEPT !.status = "IndexError"]
        ELSE [status |-> "returned",
              labels_train |-> to_categorical(ytrain, numclasses_out),
              labels_test |-> to_categorical(ytest, numclasses_out),
              labels_val |-> IF yval # <<>> THEN to_categorical(yval, numclasses_out)
                             ELSE <<>>]

LabInit ==
    \E numclasses_out \in NumClassesOut, ytrain \in Splits, ndim \in {1, 2},
       ytest \in Splits, yval \in Splits \cup {<<>>} :
        lab = [pc |-> "call", numclasses_out |-> numclasses_out, ytrain |-> ytrain,
               ndim |-> ndim, ytest |-> ytest, yval |-> yval]

LabCall ==
    /\ lab.pc = "call"
    /\ lab' = [pc |-> "done", numclasses_out |-> lab.numclasses_out,
               ytrain |-> lab.ytrain, ndim |-> lab.ndim, ytest |-> lab.ytest,
               yval |-> lab.yval,
               result |-> modify_labels(lab.numclasses_out, lab.ytrain, lab.ndim,
                                        lab.ytest, lab.yval)]
    /\ UNCHANGED <<abstentionVars, contaminationVars, train, amo, decode, cls, bk>>

----------------------------------------------------------------------------
(* The step-halving loop of Contamination_Callback.on_epoch_end (lines       *)
(* 775-780), one test or one iteration per step, from any positive gammaSQ,  *)
(* positive learning rate and finite gradient.                               *)

\* bound of the model: the iterations of the loop
MaxHalvings == 10

GmSQValues == {Rat(1, 10), Rat(1, 2), Rat(2, 1)}

LrValues == EtaValues \cup {One, Rat(4, 1)}

GradValues == {Rat(-3, 1), Zero, Rat(5, 11), One, Rat(5, 1), Rat(20, 1)}

\* the step doubled
HalveEta_double(eta) == Mul(eta, Rat(2, 1))

\* line 778
HalveEta(eta) == Div(eta, Rat(2, 1))

\* lines 775-776
BackoffInit ==
    \E gmSQ_eval \in GmSQValues, eta \in LrValues, grad_gmSQ \in GradValues :
        bk = [pc |-> "while", gmSQ_eval |-> gmSQ_eval, grad_gmSQ |-> grad_gmSQ,
              lr |-> eta, eta |-> eta,
              new_gmSQ |-> Sub(gmSQ_eval, Mul(eta, grad_gmSQ)), halvings |-> 0]

\* lines 777-779: one iteration
BackoffHalve ==
    /\ bk.pc = "while"
    /\ Less(bk.new_gmSQ, Zero)
    /\ bk.halvings < MaxHalvings
    /\ \E eta \in {HalveEta(bk.eta)} :
        bk' = [bk EXCEPT !.eta = eta,
                         !.new_gmSQ = Sub(bk.gmSQ_eval, Mul(eta, bk.grad_gmSQ)),
                         !.halvings = @ + 1]
    /\ UNCHANGED <<abstentionVars, contaminationVars, train, amo, decode, cls, lab>>

\* lines 777, 780: the test fails and the loop is left
BackoffExit ==
    /\ bk.pc = "while"
    /\ ~Less(bk.new_gmSQ, Zero)
    /\ bk' = [bk EXCEPT !.pc = "done"]
    /\ UNCHANGED <<abstentionVars, contaminationVars, train, amo, decode, cls, lab>>

----------------------------------------------------------------------------
(* Specifications: each component on its own, the others not constructed *)

AbstentionIdle ==
    /\ mu = Zero
    /\ muvalues = <<>>
    /\ py3 = TRUE
    /\ calls = 0
    /\ mu_trace = <<>>
    /\ last = [epoch |-> -1, logs |-> [k \in {"loss"} |-> One],
               outcome |-> "none", mu_before |-> Zero, len_before |-> 0]

ContaminationIdle ==
    /\ T = <<>>
    /\ T_k = <<>>
    /\ a = Zero
    /\ sigmaSQ = Zero
    /\ gammaSQ = Zero
    /\ avalues = <<>>
    /\ sigmaSQvalues = <<>>
    /\ gammaSQvalues = <<>>
    /\ epochs = 0
    /\ em = NoCall

\* AbstentionAdapt_Callback, called with any epochs and logs
Init == AbstentionInit /\ ContaminationIdle /\ TrainIdle /\ AmoIdle /\ PureIdle

Next == AbstentionCall

Spec == Init /\ [][Next]_vars

\* Contamination_Callback, called with any residuals and learning rates
InitContamination == AbstentionIdle /\ ContaminationInit /\ TrainIdle /\ AmoIdle /\ PureIdle

NextContamination == ContaminationCall

SpecContamination == InitContamination /\ [][NextContamination]_vars

\* a training run with the abstention loss or with the contamination loss
InitTraining ==
    /\ \/ AbstentionInit /\ ContaminationIdle /\ TrainStart("abstention", <<mu>>)
       \/ AbstentionIdle /\ ContaminationInit
            /\ TrainStart("contamination", <<a, sigmaSQ, gammaSQ, T_k>>)
    /\ AmoIdle
    /\ PureIdle

NextTraining ==
    \/ abstention_loss_batch
    \/ contamination_loss_batch
    \/ TrainEpochEndAbstention
    \/ TrainEpochEndContamination

SpecTraining == InitTraining /\ [][NextTraining]_vars

\* add_model_output applied to any model, mode, num_add and activation
InitAugment == AbstentionIdle /\ ContaminationIdle /\ TrainIdle /\ AmoInit /\ PureIdle

NextAugment == AmoCall

SpecAugment == InitAugment /\ [][NextAugment]_vars

\* a heteroscedastic or quantile loss or metric applied to any prediction row
InitDecode ==
    /\ AbstentionIdle /\ ContaminationIdle /\ TrainIdle /\ AmoIdle
    /\ DecodeInit /\ ClsIdle /\ LabIdle /\ BkIdle

NextDecode == DecodeCall

SpecDecode == InitDecode /\ [][NextDecode]_vars

\* a per-class accuracy metric applied to any batch
InitClassMetric ==
    /\ AbstentionIdle /\ ContaminationIdle /\ TrainIdle /\ AmoIdle
    /\ DecodeIdle /\ ClsInit /\ LabIdle /\ BkIdle

NextClassMetric == ClsCall

SpecClassMetric == InitClassMetric /\ [][NextClassMetric]_vars

\* modify_labels applied to any splits and number of classes
InitLabels ==
    /\ AbstentionIdle /\ ContaminationIdle /\ TrainIdle /\ AmoIdle
    /\ DecodeIdle /\ ClsIdle /\ LabInit /\ BkIdle

NextLabels == LabCall

SpecLabels == InitLabels /\ [][NextLabels]_vars

\* the step-halving loop, which runs on once started
InitBackoff ==
    /\ AbstentionIdle /\ ContaminationIdle /\ TrainIdle /\ AmoIdle
    /\ DecodeIdle /\ ClsIdle /\ LabIdle /\ BackoffInit

NextBackoff == BackoffHalve \/ BackoffExit

SpecBackoff == InitBackoff /\ [][NextBackoff]_vars /\ WF_vars(NextBackoff)

----------------------------------------------------------------------------
(* Properties *)

LastHasAcc == monitor \in DOMAIN last.logs

LastHasAbs == abs_monitor \in DOMAIN last.logs

LastAdapting == calls > 0 /\ last.epoch > init_abs_epoch

\* C1: a call of AbstentionAdapt_Callback.on_epoch_end with
\* epoch <= init_abs_epoch (epoch = init_abs_epoch included) leaves mu as it
\* was before the call, whatever the metric log holds.
C1_MuUnchangedUpToInitEpoch ==
    (calls > 0 /\ last.epoch <= init_abs_epoch) =>
        (mu = last.mu_before /\ last.outcome = "returned")

\* a call at epoch = init_abs_epoch whose log would scale mu down, had the
\* epoch been later
C1_Witness ==
    /\ calls > 0
    /\ last.epoch = init_abs_epoch
    /\ LastHasAcc /\ Less(last.logs[monitor], target_acc)
    /\ LastHasAbs /\ ~Less(max_abs, last.logs[abs_monitor])
    /\ mu = last.mu_before

C4_HistoryTracksMu == Len(muvalues) = calls /\ muvalues = mu_trace

\* C5: a call with epoch > init_abs_epoch whose log lacks the accuracy key or
\* the abstention key returns normally, leaves mu unchanged and appends to
\* the history.
C5_MissingKeyOnlyWarns ==
    (LastAdapting /\ (~LastHasAcc \/ ~LastHasAbs)) =>
        /\ last.outcome = "returned"
        /\ mu = last.mu_before
        /\ Len(muvalues) = last.len_before + 1

\* C6: gammaSQ is strictly positive after construction and after every
\* epoch-end call of Contamination_Callback.
C6_GammaSQPositive == Less(Zero, gammaSQ)

InUnit(x) == ~IsNaN(x) /\ ~Less(x, Zero) /\ ~Less(One, x)

\* C7: after construction and after every epoch-end call, T_k has one row per
\* training sample, and each row has two entries in [0, 1] that sum to 1.
C7_RowsAreDistributions ==
    /\ DOMAIN T_k = Samples
    /\ \A i \in Samples :
        /\ InUnit(T_k[i][1])
        /\ InUnit(T_k[i][2])
        /\ Add(T_k[i][1], T_k[i][2]) = One

TrainState == IF train.kind = "abstention" THEN <<mu>> ELSE <<a, sigmaSQ, gammaSQ, T_k>>

\* C8: in a training run the adaptive state changes only in on_epoch_end:
\* at every point of an epoch it is what the previous epoch's hook (or the
\* construction) left, and every loss evaluation of the epoch read that value.
C8_LossReadsEpochStartState ==
    train.kind # "none" =>
        /\ TrainState = train.start
        /\ \A k \in 1..Len(train.reads) : train.reads[k] = train.start

\* all batches of an epoch done, after a hook that changed mu
C8_Witness ==
    /\ train.kind = "abstention"
    /\ train.phase = "batches"
    /\ train.epoch > init_abs_epoch + 1
    /\ Len(train.reads) = BatchesPerEpoch
    /\ mu # last.mu_before
    /\ train.reads[1] = <<mu>>

\* C9: on_epoch_end of Contamination_Callback takes the M-step before the
\* E-step: a is the mean of the first column of T as it was before the call,
\* sigmaSQ and the gradient step of gammaSQ come from that T and the call's
\* residuals, T is recomputed from the updated a, sigmaSQ and gammaSQ, and
\* each history gets the updated value as its one new entry.
C9_MStepBeforeEStep ==
    epochs > 0 =>
        LET errorSQ == [i \in Samples |-> Mul(em.error[i], em.error[i])]
            step == Div(em.eta, Rat(2 ^ em.m.halvings, 1))
        IN  /\ a = Mean(Col(em.T_before, 1))
            /\ sigmaSQ = Div(Sum([i \in Samples |-> Mul(em.T_before[i][1], errorSQ[i])]),
                             Sum(Col(em.T_before, 1)))
            /\ em.m.grad = Gradient(em.T_before, errorSQ, em.gammaSQ_before)
            /\ gammaSQ = Sub(em.gammaSQ_before, Mul(step, em.m.grad))
            /\ em.e.a_eval = a
            /\ em.e.norm_scaleSQ = sigmaSQ
            /\ em.e.cauchy_scaleSQ = gammaSQ
            /\ T = Posterior(a, em.e.norm_eval, em.e.cauchy_eval)
            /\ T_k = T
            /\ Len(avalues) = epochs /\ avalues[epochs] = a
            /\ Len(sigmaSQvalues) = epochs /\ sigmaSQvalues[epochs] = sigmaSQ
            /\ Len(gammaSQvalues) = epochs /\ gammaSQvalues[epochs] = gammaSQ

\* a second epoch end, from the T of the first E-step, that changed a,
\* sigmaSQ and gammaSQ and left finite memberships
C9_Witness ==
    /\ epochs = 2
    /\ avalues[1] # avalues[2]
    /\ sigmaSQvalues[1] # sigmaSQvalues[2]
    /\ gammaSQvalues[1] # gammaSQvalues[2]
    /\ em.T_before # T
    /\ \A i \in Samples : IsFinite(T[i][1]) /\ Less(Zero, T[i][1])

DensePositions(layers) == { p \in 1..Len(layers) : IsDense(layers[p].name) }

LastDensePosition(layers) ==
    CHOOSE p \in DensePositions(layers) : \A q \in DensePositions(layers) : q <= p

Recognized == {"abstain", "qtl", "het"}

\* C11 (as stated): for every mode that is not 'abstain', 'qtl' or 'het', mode
\* left unspecified included, add_model_output fails with the exception of
\* line 389 and returns no model, whatever the layers of the model are.
C11_UnrecognizedModeRaises ==
    (amo.pc = "done" /\ amo.mode \notin Recognized) =>
        (amo.result.status = "Exception" /\ amo.result.model = <<>>)

\* C11 (amended): with mode left unspecified add_model_output returns the
\* model it was given; with any other mode that is not 'abstain', 'qtl' or
\* 'het' it fails and returns no model, by the exception of line 389 when the
\* model has a dense layer, by the assertion of line 378 when it has layers
\* but no dense one, and by an index error when it has no layers.
C11_ModeHandling ==
    (amo.pc = "done" /\ amo.mode \notin Recognized) =>
        IF amo.mode = NoneStr
        THEN amo.result.status = "returned" /\ amo.result.model = amo.layers
        ELSE /\ amo.result.model = <<>>
             /\ amo.result.rebuilt = <<>>
             /\ amo.result.status =
                  (IF DensePositions(amo.layers) # {} THEN "Exception"
                   ELSE IF Len(amo.layers) > 0 THEN "AssertionError"
                   ELSE "IndexError")

\* an unrecognized mode on a model without a dense layer: the assertion fails
\* before the mode is looked at
C11_Witness ==
    /\ amo.pc = "done"
    /\ amo.mode = "both"
    /\ Len(amo.layers) = 2
    /\ DensePositions(amo.layers) = {}
    /\ amo.result.status = "AssertionError"

\* C12: for a non-empty layer list and a given mode, the backward scan reads
\* only indices inside the list; if some layer name contains 'dense' it stops
\* at the last such layer, every later layer being non-dense; if none does,
\* the call fails by assertion and no layer is rebuilt.
C12_ScanFindsLastDense ==
    (amo.pc = "done" /\ amo.mode # NoneStr /\ Len(amo.layers) > 0) =>
        LET n == Len(amo.layers)
            r == amo.result
        IN  /\ \A i \in ScanReads(amo.layers, -1) : InRange(amo.layers, i)
            /\ IF DensePositions(amo.layers) # {}
               THEN /\ InRange(amo.layers, r.i)
                    /\ n + r.i + 1 = LastDensePosition(amo.layers)
                    /\ IsDense(At(amo.layers, r.i).name)
                    /\ \A p \in (n + r.i + 2)..n : ~IsDense(amo.layers[p].name)
               ELSE /\ r.status = "AssertionError"
                    /\ r.rebuilt = <<>>
                    /\ r.model = <<>>

\* the scan passes a non-dense last layer and the later of two dense layers
\* is chosen
C12_Witness ==
    /\ amo.pc = "done"
    /\ amo.mode = "het"
    /\ Len(amo.layers) = 3
    /\ IsDense(amo.layers[1].name)
    /\ IsDense(amo.layers[2].name)
    /\ ~IsDense(amo.layers[3].name)
    /\ amo.result.i = -2
    /\ amo.result.status = "returned"

\* columns start, start + stride, ... : component `start` of each of nout outputs
Interleaved(nout, stride, start) == [k \in 1..nout |-> stride * (k - 1) + start]

\* C13: the heteroscedastic loss and the four heteroscedastic metrics return
\* for every nout, having read the mean of output i from column 2*i and its
\* log-variance from column 2*i + 1: nout mean columns and nout log-variance
\* columns (columns 0 and 1 for nout = 1).
C13_HetStride2Layout ==
    (decode.pc = "done" /\ decode.consumer \in HetConsumers) =>
        /\ decode.result.status = "returned"
        /\ \A c \in DOMAIN decode.result.columns :
              decode.result.columns[c] =
                Interleaved(decode.nout, 2, IF c = "mean" THEN 0 ELSE 1)

\* C14: triple_quantile_loss and quantile_metric return for every nout,
\* having read the median, the low and the high quantile of output i from
\* columns 3*i, 3*i + 1 and 3*i + 2: nout columns for each component.
C14_QtlStride3Layout ==
    (decode.pc = "done" /\ decode.consumer \in QtlConsumers) =>
        /\ decode.result.status = "returned"
        /\ \A c \in DOMAIN decode.result.columns :
              decode.result.columns[c] =
                Interleaved(decode.nout, 3, CHOOSE k \in 0..2 : QtlNames[k + 1] = c)

\* the samples of the batch whose ground truth is the class of the call
OfClass == { k \in 1..Len(cls.batch) : ArgMax(cls.batch[k].y_true) = cls.class_i }

\* those of them the prediction does not abstain on
OfClassKept == { k \in OfClass : ArgMax(cls.batch[k].y_pred) # nb_classes }

\* C15: acc_class_i_metric returns exactly 0 for a batch without ground-truth
\* samples of the class, and otherwise the number of samples of the class
\* predicted as the class (abstention column left out) divided by the number
\* of samples of the class; abstention_acc_class_i_metric returns exactly 0
\* when the class has no ground-truth sample or all of them are abstained
\* on, and otherwise the number of non-abstained samples of the class
\* predicted right divided by the number of non-abstained samples of the
\* class.  The result is never nan or inf.
C15_ClassMetricZeroGuard ==
    cls.pc = "done" =>
        /\ IsFinite(cls.result)
        /\ IF cls.metric = "acc_class_i"
           THEN cls.result =
                  (IF OfClass = {} THEN Zero
                   ELSE Rat(Cardinality({ k \in OfClass :
                                ArgMax(AllButLast(cls.batch[k].y_pred)) = cls.class_i }),
                            Cardinality(OfClass)))
           ELSE cls.result =
                  (IF OfClassKept = {} THEN Zero
                   ELSE Rat(Cardinality({ k \in OfClassKept :
                                ArgMax(cls.batch[k].y_pred) = cls.class_i }),
                            Cardinality(OfClassKept)))

\* two samples of the class, both abstained on: 0 / 0 is not returned
C15_Witness ==
    /\ cls.pc = "done"
    /\ cls.metric = "abstention_acc_class_i"
    /\ Cardinality(OfClass) = 2
    /\ OfClassKept = {}
    /\ cls.result = Zero

MaxOf(y) == CHOOSE m \in LabelValues : (\E k \in 1..Len(y) : y[k] = m)
                                       /\ (\A k \in 1..Len(y) : y[k] <= m)

\* every row of labels is the one-hot vector of its class, of the given
\* width, with 0 in the last column
RowsAreOneHot(labels, y, width) ==
    /\ Len(labels) = Len(y)
    /\ \A k \in 1..Len(y) :
        /\ Len(labels[k]) = width
        /\ \A c \in 1..width : labels[k][c] = (IF c = y[k] + 1 THEN 1 ELSE 0)
        /\ labels[k][width] = 0

\* C16: when the train, test and (if given) val labels have the same
\* maximum m and numclasses_out = m + 2, modify_labels returns, for each
\* split, one-hot rows of width numclasses_out with the 1 at the class of
\* the sample and 0 in the last column; otherwise it fails by assertion and
\* returns nothing.
C16_ModifyLabels ==
    lab.pc = "done" =>
        LET m == MaxOf(lab.ytrain)
            r == lab.result
        IN  IF /\ MaxOf(lab.ytest) = m
               /\ (lab.yval # <<>> => MaxOf(lab.yval) = m)
               /\ lab.numclasses_out = m + 2
            THEN /\ r.status = "returned"
                 /\ RowsAreOneHot(r.labels_train, lab.ytrain, lab.numclasses_out)
                 /\ RowsAreOneHot(r.labels_test, lab.ytest, lab.numclasses_out)
                 /\ RowsAreOneHot(r.labels_val, lab.yval, lab.numclasses_out)
            ELSE /\ r.status = "AssertionError"
                 /\ r.labels_train = <<>> /\ r.labels_test = <<>> /\ r.labels_val = <<>>

\* C17: from any gammaSQ > 0, learning rate > 0 and finite gradient the
\* step-halving loop is left; when it is left the new gammaSQ is not
\* negative and is gammaSQ - (lr / 2^halvings) * gradient; no step of the
\* loop changes the gradient or the current gammaSQ.
C17_BackoffTerminates ==
    /\ <>(bk.pc = "done")
    /\ [](bk.pc = "done" =>
            /\ ~Less(bk.new_gmSQ, Zero)
            /\ IsFinite(bk.new_gmSQ)
            /\ bk.eta = Div(bk.lr, Rat(2 ^ bk.halvings, 1))
            /\ bk.new_gmSQ = Sub(bk.gmSQ_eval, Mul(bk.eta, bk.grad_gmSQ))
            /\ bk.new_gmSQ = Backoff(bk.gmSQ_eval, bk.lr, bk.grad_gmSQ, 0).new_gmSQ)
    /\ [][/\ bk'.grad_gmSQ = bk.grad_gmSQ
           /\ bk'.gmSQ_eval = bk.gmSQ_eval
           /\ bk'.lr = bk.lr]_vars

\* the loop left after several halvings, for a step that was too long
C17_Witness ==
    /\ bk.pc = "done"
    /\ bk.halvings >= 5
    /\ Less(Zero, bk.new_gmSQ)
    /\ Less(bk.eta, bk.lr)

RECURSIVE Scaled(_, _)
\* v * scale_factor^k for an integer k
Scaled(v, k) ==
    IF k = 0 THEN v
    ELSE IF k > 0 THEN Mul(Scaled(v, k - 1), scale_factor)
    ELSE Div(Scaled(v, k + 1), scale_factor)

====
